---- MODULE Spec2Model ----
(***************************************************************************)
(* Model of the document analyzer's orchestration: the DocumentAnalyzer    *)
(* component (file collection, six stage passes, comprehensive run), the   *)
(* two retrying clients (extractTextFromFile, generateSummary) and the     *)
(* four single-shot clients (analyzeImage, analyzeDocumentStructure,       *)
(* analyzeDocumentQuality, performSpecializedAnalysis).                    *)
(*                                                                         *)
(* Granularity.  JavaScript runs one task at a time, so a handler is cut   *)
(* only where it really suspends: at a pending fetch, at a setTimeout      *)
(* sleep, and at a FileReader load.  The steps between two suspensions     *)
(* are written as several actions for readability, but user events        *)
(* (processFiles, removeFile, button clicks) are enabled only while the    *)
(* run is idle or suspended (UserMayAct), so they never interleave with    *)
(* a continuation.                                                         *)
(*                                                                         *)
(* Closures.  Every stage callback is a useCallback over uploadedFiles:    *)
(* a click runs the callback of the last render, which reads the           *)
(* collection as it was at the click.  runComprehensiveAnalysis holds the  *)
(* six callbacks of that same render, so all six passes of one call        *)
(* filter the same captured collection (run.files), while every           *)
(* setUploadedFiles(prev => ...) acts on the live collection.              *)
(*                                                                         *)
(* Timer.  call.timer is true while the abort timer of the current attempt *)
(* of a retrying client is armed: from setTimeout to clearTimeout, which   *)
(* follows the await of fetch.  A timer left armed by a rejected fetch     *)
(* aborts a request that is over, which changes nothing; the model drops   *)
(* it with the attempt.                                                    *)
(*                                                                         *)
(* History.  call.waits (the sleeps of the current client call, in ms)     *)
(* and call.classes (the class of each of its failed attempts) record      *)
(* what the call has done so far; call.upstream records what the          *)
(* analyze-image route ran into while answering; dispatched records which  *)
(* clients were called for which id.  The program keeps none of them.      *)
(*                                                                         *)
(* Identifiers.  Math.random().toString(36).substr(2, 9) is modelled as a  *)
(* value never produced before (nextId).                                   *)
(***************************************************************************)
EXTENDS Integers, Sequences, FiniteSets, TLC

VARIABLES
    uploadedFiles,   \* useState<UploadedFile[]>: the live collection
    isProcessing,    \* useState(false)
    activeTab,       \* useState("upload")
    readers,         \* processFiles calls whose FileReader loads are pending
    nextId,          \* number of identifiers drawn so far, plus one
    run,             \* the running callback: mode, captured files, pass, queue
    pc,              \* where the running callback is suspended
    call,            \* the client call in progress (retry loop state)
    toasts,          \* the last notice of processFiles or of runComprehensiveAnalysis
    runs,            \* number of runs started
    dispatched,      \* history: (id, stage) pairs whose client was called
    removed,         \* history: identifiers passed to removeFile
    faults,          \* number of requests answered by a failure ("batch", "staged")
    scenario         \* which inputs the environment offers (fixed by Init)

vars == <<uploadedFiles, isProcessing, activeTab, readers, nextId, run, pc,
          call, toasts, runs, dispatched, removed, faults, scenario>>

----------------------------------------------------------------------------
(* Bounds of the model *)

MaxFiles == 3
MaxIds == 2
MaxRuns == 3
MaxFaults == 1
MaxRemovals == 1

----------------------------------------------------------------------------
(* Program constants *)

MAX_RETRIES == 3
ExtractSizeLimitMB == 50
MinSummaryWords == 10
MaxSummaryWords == 15000
BackoffBaseMs == 1000
ExtractRateLimitBaseMs == 1000
SummaryRateLimitBaseMs == 2000
ImageSizeLimitMB == 10
PdfParseFailedWords == 11

----------------------------------------------------------------------------
(* Optional fields: undefined is <<>>, a defined value v is <<v>> *)

None == <<>>
Some(v) == <<v>>
Truthy(x) == x # None
Val(x) == x[1]

RECURSIVE Pow2(_)
Pow2(n) == IF n = 0 THEN 1 ELSE 2 * Pow2(n - 1)

----------------------------------------------------------------------------
(* Stages and the UploadedFile fields that hold their state *)

Stages == {"extract", "image", "structure", "quality", "specialized", "summary"}

\* the order of the six passes of runComprehensiveAnalysis
PassOrder == <<"extract", "image", "structure", "quality", "specialized", "summary">>

ResultField == [extract     |-> "extractedText",
                image       |-> "imageAnalysis",
                structure   |-> "documentStructure",
                quality     |-> "documentQuality",
                specialized |-> "specializedAnalysis",
                summary     |-> "generatedSummary"]

FlagField == [extract     |-> "isExtracting",
              image       |-> "isAnalyzingImage",
              structure   |-> "isAnalyzingStructure",
              quality     |-> "isAnalyzingQuality",
              specialized |-> "isAnalyzingSpecialized",
              summary     |-> "isSummarizing"]

ErrorField == [extract     |-> "extractionError",
               image       |-> "imageAnalysisError",
               structure   |-> "structureAnalysisError",
               quality     |-> "qualityAnalysisError",
               specialized |-> "specializedAnalysisError",
               summary     |-> "summaryError"]

\* a record as processFiles builds it: only file, id and type are set
UploadedFile(id, type, size) ==
    [id |-> id, type |-> type, size |-> size,
     extractedText |-> None, isExtracting |-> FALSE, extractionError |-> None,
     generatedSummary |-> None, isSummarizing |-> FALSE, summaryError |-> None,
     imageAnalysis |-> None, isAnalyzingImage |-> FALSE, imageAnalysisError |-> None,
     documentStructure |-> None, isAnalyzingStructure |-> FALSE,
     structureAnalysisError |-> None,
     documentQuality |-> None, isAnalyzingQuality |-> FALSE,
     qualityAnalysisError |-> None,
     specializedAnalysis |-> None, isAnalyzingSpecialized |-> FALSE,
     specializedAnalysisError |-> None]

----------------------------------------------------------------------------
(* Sequence helpers *)

Range(s) == {s[i] : i \in 1..Len(s)}

\* prev.map((f) => (f.id === id ? { ...f, [field]: v } : f))
MapById(files, id, field, v) ==
    [i \in 1..Len(files) |->
        IF files[i].id = id THEN [files[i] EXCEPT ![field] = v] ELSE files[i]]

----------------------------------------------------------------------------
(* Error messages.  An Error is [name, prefix, attempts, text]: text is    *)
(* the message produced at its origin; prefix and attempts are set when    *)
(* a client wraps it ("Failed after 3 attempts: " + text).  The clients    *)
(* classify by String.includes on the message, which is case sensitive:    *)
(* Includes lists, for every message of the model, the probed substrings   *)
(* it contains.                                                            *)

Error(name, text) == [name |-> name, prefix |-> "", attempts |-> 0, text |-> text]

\* thrown by the clients before any request is made
EmptyFileMsg == "Invalid file: File is empty or corrupted"
FileTooLargeMsg == "File too large: Maximum file size is 50MB"
TextTooShortMsg == "Text too short: Minimum 10 words required for summarization"
TextTooLongMsg == "Text too long: Maximum 15,000 words supported for summarization"

\* error bodies of the extract-text route
OcrFailedMsg == "Failed to extract text from image. Please ensure the image contains clear, readable text."

\* error bodies of the generate-summary route
RouteRateLimitMsg == "Rate limit exceeded. Please wait a moment and try again."
RouteSummaryTooShortMsg == "Generated summary is too short or empty"
RouteSummaryFailedMsg == "Failed to generate summary. Please try again."

\* error bodies of the four single-shot routes
ImageTooLargeMsg == "Image file too large. Maximum size is 10MB."
ImageFailedMsg == "Failed to analyze image: Unknown error. Please try again."
StructureFailedMsg == "Failed to analyze document structure. Please try again."
QualityFailedMsg == "Failed to analyze document quality. Please try again."
SpecializedFailedMsg == "Failed to perform specialized analysis. Please try again."

\* failures that do not come from a route of this repository: fetch
\* rejecting (TypeError), and error bodies of whatever answers in front of
\* the route (a gateway), which the clients' substring tests provide for
NetworkMsg == "Failed to fetch"
GatewayRateLimitMsg == "rate limit reached"
GatewayTooLargeMsg == "Request body too large"

\* the rejection of an aborted fetch (controller.abort())
AbortError == Error("AbortError", "The user aborted a request.")

Includes(text, sub) ==
    <<text, sub>> \in
        {<<EmptyFileMsg, "Invalid">>,
         <<FileTooLargeMsg, "too large">>,
         <<TextTooShortMsg, "too short">>,
         <<TextTooLongMsg, "too long">>,
         <<RouteSummaryTooShortMsg, "too short">>,
         <<ImageTooLargeMsg, "too large">>,
         <<GatewayRateLimitMsg, "rate limit">>,
         <<GatewayTooLargeMsg, "too large">>}

----------------------------------------------------------------------------
(* Eligibility: the filter of each stage pass, which is also the predicate *)
(* under the can* flags                                                    *)

\* a list of specialized types that has "letter" in it as well
SpecializedTypesWithLetter == {"invoice", "contract", "resume", "letter"}

\* ["invoice", "contract", "resume"] of performSpecializedAnalyses
SpecializedTypes == {"invoice", "contract", "resume"}

\* filters in which the image pass does not look at the kind of the file
StageFilterAnyKind(f, s) ==
    CASE s = "extract" ->
            ~Truthy(f.extractedText) /\ ~Truthy(f.extractionError)
      [] s = "image" ->
            ~Truthy(f.imageAnalysis) /\ ~Truthy(f.imageAnalysisError)
      [] s = "specialized" ->
            Truthy(f.extractedText) /\ Truthy(f.documentStructure)
            /\ ~Truthy(f.specializedAnalysis)
            /\ ~Truthy(f.specializedAnalysisError)
            /\ Val(f.documentStructure).documentType \in SpecializedTypes
      [] OTHER ->
            Truthy(f.extractedText) /\ ~Truthy(f[ResultField[s]])
            /\ ~Truthy(f[ErrorField[s]])

\* the filter callbacks of the six passes (and of canExtractText, ...)
StageFilter(f, s) ==
    CASE s = "extract" ->
            ~Truthy(f.extractedText) /\ ~Truthy(f.extractionError)
      [] s = "summary" ->
            Truthy(f.extractedText) /\ ~Truthy(f.generatedSummary)
            /\ ~Truthy(f.summaryError)
      [] s = "image" ->
            f.type = "image" /\ ~Truthy(f.imageAnalysis)
            /\ ~Truthy(f.imageAnalysisError)
      [] s = "structure" ->
            Truthy(f.extractedText) /\ ~Truthy(f.documentStructure)
            /\ ~Truthy(f.structureAnalysisError)
      [] s = "quality" ->
            Truthy(f.extractedText) /\ ~Truthy(f.documentQuality)
            /\ ~Truthy(f.qualityAnalysisError)
      [] s = "specialized" ->
            Truthy(f.extractedText) /\ Truthy(f.documentStructure)
            /\ ~Truthy(f.specializedAnalysis)
            /\ ~Truthy(f.specializedAnalysisError)
            /\ Val(f.documentStructure).documentType \in SpecializedTypes

FilesFor(files, s) == SelectSeq(files, LAMBDA f : StageFilter(f, s))

hasExtractedText == \E i \in 1..Len(uploadedFiles) : Truthy(uploadedFiles[i].extractedText)
canExtractText == \E i \in 1..Len(uploadedFiles) : StageFilter(uploadedFiles[i], "extract")
canGenerateSummaries == \E i \in 1..Len(uploadedFiles) : StageFilter(uploadedFiles[i], "summary")
canAnalyzeImages == \E i \in 1..Len(uploadedFiles) : StageFilter(uploadedFiles[i], "image")
canAnalyzeStructures == \E i \in 1..Len(uploadedFiles) : StageFilter(uploadedFiles[i], "structure")
canAnalyzeQuality == \E i \in 1..Len(uploadedFiles) : StageFilter(uploadedFiles[i], "quality")
canPerformSpecialized == \E i \in 1..Len(uploadedFiles) : StageFilter(uploadedFiles[i], "specialized")


----------------------------------------------------------------------------
(* Inputs offered by the environment.  The exploration is split in       *)
(* scenarios, chosen by Init and never changed:                            *)
(*   "client": one file, of every size, against every reply of the model;  *)
(*   "batch":  up to MaxFiles records and MaxIds files of ordinary size,   *)
(*             dropped, loaded and removed at any suspension point, each   *)
(*             request answered by a result or by one kind of failure, at  *)
(*             most MaxFaults failures in a behaviour;                     *)
(*   "staged": files as in "batch", replies failing in every way of the    *)
(*             model (at most MaxFaults times), but the user drops and     *)
(*             removes files only before the first click on a button.      *)

Scenarios == {"client", "batch", "staged"}

\* file.size in MB: empty, ordinary, above the image limit only, above the
\* extraction limit as well
FileSizes == {0, 1, 11, 51}

\* a dropped file: what processFiles tells apart (PDF, image, neither)
FileInputs ==
    IF scenario = "client"
    THEN [kind : {"pdf", "image"}, size : FileSizes] \cup {[kind |-> "other", size |-> 1]}
    ELSE [kind : {"pdf", "image"}, size : {1}]

\* records the collection may hold, and identifiers that may be drawn
FileLimit == IF scenario = "client" THEN 1 ELSE MaxFiles
IdLimit == IF scenario = "client" THEN 1 ELSE MaxIds

\* word counts of an extracted text, around the summarization limits
WordCounts == {9, 10, 500, 15000, 15001}

\* documentType as the analyze-document-structure route's schema allows it
DocumentTypes == {"invoice", "receipt", "contract", "report", "letter", "form", "other"}

\* document types the model lets the structure route answer
AnsweredTypes == {"invoice", "letter"}

----------------------------------------------------------------------------
(* processFiles, FileReader.onload, removeFile *)

IsPdf(x) == x.kind = "pdf"
IsImage(x) == x.kind = "image"

RECURSIVE PdfRecords(_, _)
\* the forEach of processFiles over the PDFs of the batch: one record each,
\* each with a new identifier
PdfRecords(files, id) ==
    IF files = <<>> THEN <<>>
    ELSE IF IsPdf(Head(files))
         THEN <<UploadedFile(id, "pdf", Head(files).size)>>
                  \o PdfRecords(Tail(files), id + 1)
         ELSE PdfRecords(Tail(files), id)

RECURSIVE SumPending(_)
SumPending(rs) == IF rs = <<>> THEN 0 ELSE Len(Head(rs).pending) + SumPending(Tail(rs))

RECURSIVE SumExpected(_)
SumExpected(rs) == IF rs = <<>> THEN 0 ELSE Head(rs).expected + SumExpected(Tail(rs))

\* records the batch will have appended once all its images are loaded
RecordsOf(files) ==
    LET p == Len(SelectSeq(files, IsPdf))
        i == Len(SelectSeq(files, IsImage))
    IN  IF i > 0 THEN p + p + i ELSE p

UserMayAct ==
    IF scenario = "staged" THEN pc = "idle" /\ runs = 0
    ELSE pc \in {"idle", "fetch", "ratelimit", "backoff"}

processFiles(files) ==
    LET pdfFiles == PdfRecords(files, nextId)
        images == SelectSeq(files, IsImage)
        expected == Len(pdfFiles) + Len(images)
    IN  /\ UserMayAct
        /\ Len(uploadedFiles) + SumExpected(readers) + RecordsOf(files) <= FileLimit
        /\ (nextId - 1) + SumPending(readers) + expected <= IdLimit
        /\ uploadedFiles' = uploadedFiles \o pdfFiles
        /\ nextId' = nextId + Len(pdfFiles)
        /\ readers' = IF images = <<>> THEN readers
                      ELSE Append(readers, [validFiles |-> pdfFiles,
                                            expected |-> expected,
                                            pending |-> images])
        /\ toasts' = IF \E i \in 1..Len(files) : files[i].kind = "other"
                     THEN "Unsupported file type" ELSE toasts
        /\ UNCHANGED <<isProcessing, activeTab, run, pc, call, runs, dispatched, removed, faults, scenario>>

RemoveAt(s, k) == SubSeq(s, 1, k - 1) \o SubSeq(s, k + 1, Len(s))

\* what the load handler appends to the collection: the whole validFiles
\* array of its processFiles call
LoadedBatch(validFiles) == validFiles

\* reader.onload of the k-th pending image of the r-th processFiles call
onload(r, k) ==
    LET b == readers[r]
        validFiles == Append(b.validFiles,
                             UploadedFile(nextId, "image", b.pending[k].size))
    IN  /\ UserMayAct
        /\ nextId' = nextId + 1
        /\ IF Len(validFiles) = b.expected
           THEN /\ uploadedFiles' = uploadedFiles \o LoadedBatch(validFiles)
                /\ readers' = RemoveAt(readers, r)
           ELSE /\ uploadedFiles' = uploadedFiles
                /\ readers' = [readers EXCEPT ![r] =
                                  [validFiles |-> validFiles,
                                   expected |-> b.expected,
                                   pending |-> RemoveAt(b.pending, k)]]
        /\ UNCHANGED <<isProcessing, activeTab, run, pc, call, toasts, runs, dispatched, removed, faults, scenario>>

removeFile(id) ==
    /\ UserMayAct
    /\ Cardinality(removed) < MaxRemovals
    /\ uploadedFiles' = SelectSeq(uploadedFiles, LAMBDA f : f.id # id)
    /\ removed' = removed \cup {id}
    /\ UNCHANGED <<isProcessing, activeTab, readers, nextId, run, pc, call,
                   toasts, runs, dispatched, faults, scenario>>

----------------------------------------------------------------------------
(* The two retrying clients: extractTextFromFile and generateSummary *)

Retrying == {"extract", "summary"}

\* the checks made before the retry loop; None when they pass
PreValidate(s, u) ==
    CASE s = "extract" ->
            IF u.size = 0 THEN Some(Error("Error", EmptyFileMsg))
            ELSE IF u.size > ExtractSizeLimitMB THEN Some(Error("Error", FileTooLargeMsg))
            ELSE None
      [] s = "summary" ->
            IF Val(u.extractedText).wordCount < MinSummaryWords
            THEN Some(Error("Error", TextTooShortMsg))
            ELSE IF Val(u.extractedText).wordCount > MaxSummaryWords
            THEN Some(Error("Error", TextTooLongMsg))
            ELSE None
      [] OTHER -> None

\* error.name === "AbortError"
IsAbort(e) == e.name = "AbortError"

\* the "Don't retry validation errors" test of each client
IsValidationError(s, e) ==
    IF s = "extract"
    THEN Includes(e.text, "Invalid") \/ Includes(e.text, "too large")
    ELSE Includes(e.text, "Invalid input") \/ Includes(e.text, "too short")
         \/ Includes(e.text, "too long")

\* error.message.includes("rate limit")
IsRateLimit(e) == Includes(e.text, "rate limit")

\* a loop that stops one attempt late
IsLastAttemptLate(attempt) == attempt = MAX_RETRIES + 1

\* attempt === MAX_RETRIES
IsLastAttempt(attempt) == attempt = MAX_RETRIES

\* Math.pow(2, attempt) * 1000 (extract) or * 2000 (summary)
RateLimitWait(s, attempt) ==
    Pow2(attempt) * (IF s = "extract" THEN ExtractRateLimitBaseMs
                     ELSE SummaryRateLimitBaseMs)

\* a backoff computed from the attempts that remain
BackoffWaitShrinking(attempt) == Pow2(MAX_RETRIES - attempt) * BackoffBaseMs

\* a backoff that does not grow with the attempt
BackoffWaitFlat(attempt) == BackoffBaseMs

\* Math.pow(2, attempt - 1) * 1000
BackoffWait(attempt) == Pow2(attempt - 1) * BackoffBaseMs

\* the Error thrown for an aborted attempt
TimeoutError(s, type) ==
    Error("Error",
          IF s = "summary"
          THEN "Timeout: Summary generation took too long. Try with shorter text."
          ELSE IF type = "pdf"
          THEN "Timeout: PDF parsing took too long. Try with a smaller file."
          ELSE "Timeout: Image OCR took too long. Try with a smaller file.")

\* a final Error that has lost the message of the last failure
ExhaustedErrorUnknown(s, lastError) ==
    [name |-> "Error",
     prefix |-> IF s = "extract" THEN "Failed after" ELSE "Summary generation failed after",
     attempts |-> MAX_RETRIES,
     text |-> "Unknown error"]

\* the Error thrown after the loop
ExhaustedError(s, lastError) ==
    [name |-> "Error",
     prefix |-> IF s = "extract" THEN "Failed after" ELSE "Summary generation failed after",
     attempts |-> MAX_RETRIES,
     text |-> IF Truthy(lastError) THEN Val(lastError).text ELSE "Unknown error"]

\* a catch block without its validation test
AfterFailureNoValidation(s, type, e, attempt) ==
    IF IsAbort(e) THEN [to |-> "throw", error |-> TimeoutError(s, type)]
    ELSE IF IsRateLimit(e) THEN [to |-> "ratelimit", error |-> e]
    ELSE IF attempt = MAX_RETRIES THEN [to |-> "exhausted", error |-> e]
    ELSE [to |-> "backoff", error |-> e]

\* a catch block that retries an aborted attempt like any other failure
AfterFailureRetryTimeout(s, type, e, attempt) ==
    IF ~IsAbort(e) /\ IsValidationError(s, e) THEN [to |-> "throw", error |-> e]
    ELSE IF attempt = MAX_RETRIES THEN [to |-> "exhausted", error |-> e]
    ELSE [to |-> "backoff", error |-> e]

\* the class of a failed attempt, in the order of the catch block's tests
Classify(s, e) ==
    IF IsAbort(e) THEN "Timeout"
    ELSE IF IsValidationError(s, e) THEN "Validation"
    ELSE IF IsRateLimit(e) THEN "RateLimited"
    ELSE "Transient"

\* what a failed attempt leads to: "throw" (with the error thrown),
\* "ratelimit" (the rate-limit sleep), "backoff" (the sleep before the next
\* attempt) or "exhausted" (break, then the throw after the loop)
AfterFailure(s, type, e, attempt) ==
    IF IsAbort(e) THEN [to |-> "throw", error |-> TimeoutError(s, type)]
    ELSE IF IsValidationError(s, e) THEN [to |-> "throw", error |-> e]
    ELSE IF IsRateLimit(e) THEN [to |-> "ratelimit", error |-> e]
    ELSE IF IsLastAttempt(attempt) THEN [to |-> "exhausted", error |-> e]
    ELSE [to |-> "backoff", error |-> e]

\* after the rate-limit sleep: the same last-attempt test
AfterRateLimitWait(attempt) ==
    IF IsLastAttempt(attempt) THEN "exhausted" ELSE "backoff"

----------------------------------------------------------------------------
(* The extract-text route when pdf-parse throws: the catch block puts a    *)
(* sentence in extractedText and the route answers success: true with it   *)

PdfParseFailedText == "Failed to parse PDF. The document may be image-based or corrupted."

\* text, and wordCount as the route counts it (split(/\s+/))
PdfParseFailedReply == [wordCount |-> PdfParseFailedWords, text |-> PdfParseFailedText]

----------------------------------------------------------------------------
(* The analyze-image route: what happens behind it, and what it answers *)

\* what one request to the route runs into: the size check refuses it,
\* reading the request throws, the captioning model fails, the
\* object-detection model fails, or nothing fails
RouteEvents(u) ==
    IF u.size > ImageSizeLimitMB THEN {"refused"}
    ELSE IF scenario = "client"
         THEN {"ok", "captionFailed", "detectionFailed", "requestFailed"}
         ELSE {"ok", "requestFailed"}

\* fallbackAnalysis: generic object and description placeholders
FallbackAnalysis == [description |-> "unavailable", objects |-> "placeholder"]

\* a route whose inner catch block answers a failed model with status 500
ImageRouteReplyHardFailure(up) ==
    CASE up = "refused" -> [ok |-> FALSE, body |-> Error("Error", ImageTooLargeMsg)]
      [] up = "requestFailed" -> [ok |-> FALSE, body |-> Error("Error", ImageFailedMsg)]
      [] up = "captionFailed" -> [ok |-> FALSE, body |-> Error("Error", ImageFailedMsg)]
      [] up = "detectionFailed" ->
            [ok |-> TRUE, body |-> [description |-> "caption", objects |-> "none"]]
      [] OTHER -> [ok |-> TRUE, body |-> [description |-> "caption", objects |-> "detected"]]

\* POST of the route as analyzeImage sees it: ok and result.analysis, or
\* the error it throws.  A failed captioning call lands in the inner catch
\* block (fallbackAnalysis, success: true); detectObjectsWithHuggingFace
\* catches its own failure and returns [], so the analysis is the ordinary
\* one with an empty object list.
ImageRouteReply(up) ==
    CASE up = "refused" -> [ok |-> FALSE, body |-> Error("Error", ImageTooLargeMsg)]
      [] up = "requestFailed" -> [ok |-> FALSE, body |-> Error("Error", ImageFailedMsg)]
      [] up = "captionFailed" -> [ok |-> TRUE, body |-> FallbackAnalysis]
      [] up = "detectionFailed" ->
            [ok |-> TRUE, body |-> [description |-> "caption", objects |-> "none"]]
      [] OTHER -> [ok |-> TRUE, body |-> [description |-> "caption", objects |-> "detected"]]

ImageReplies(u, ok) ==
    {ImageRouteReply(up).body : up \in {x \in RouteEvents(u) : ImageRouteReply(x).ok = ok}}

\* history: the route events that explain a reply
Causes(s, u, ok, body) ==
    IF s = "image"
    THEN {up \in RouteEvents(u) : ImageRouteReply(up) = [ok |-> ok, body |-> body]}
    ELSE IF s = "extract" /\ ok /\ body = PdfParseFailedReply
    THEN {"parseFailed"}
    ELSE {"none"}

----------------------------------------------------------------------------
(* What the remote side can answer to one request *)

OkPayloads(s, u) ==
    CASE s = "extract" ->
            {[wordCount |-> n, text |-> "content"] :
                 n \in IF scenario = "client" THEN WordCounts ELSE {500}}
            \cup IF u.type = "pdf" /\ scenario = "client" THEN {PdfParseFailedReply} ELSE {}
      [] s = "summary" -> {[originalWordCount |-> Val(u.extractedText).wordCount]}
      [] s = "image" -> ImageReplies(u, TRUE)
      [] s = "structure" ->
            {[documentType |-> t] : t \in IF scenario = "client" THEN AnsweredTypes
                                          ELSE {"invoice"}}
      [] s = "quality" -> {[overallQuality |-> "good"]}
      [] s = "specialized" -> {[documentType |-> Val(u.documentStructure).documentType]}

FailureReplies(s, u) ==
    IF scenario = "batch" /\ s \in {"extract", "summary"} THEN {AbortError} ELSE
    CASE s = "extract" ->
            {Error("Error", m) : m \in {OcrFailedMsg, GatewayRateLimitMsg, GatewayTooLargeMsg}}
                \cup {Error("TypeError", NetworkMsg), AbortError}
      [] s = "summary" ->
            {Error("Error", m) : m \in {RouteRateLimitMsg, RouteSummaryTooShortMsg,
                                        RouteSummaryFailedMsg, GatewayRateLimitMsg}}
                \cup {AbortError}
      [] s = "image" -> ImageReplies(u, FALSE)
      [] s = "structure" -> {Error("Error", StructureFailedMsg)}
      [] s = "quality" -> {Error("Error", QualityFailedMsg)}
      [] s = "specialized" -> {Error("Error", SpecializedFailedMsg)}

----------------------------------------------------------------------------
(* The stage passes and runComprehensiveAnalysis *)

NoRun == [mode |-> "none", files |-> <<>>, pass |-> 0, queue |-> <<>>,
          selected |-> 0, settled |-> 0, passes |-> 0]

NoCall == [stage |-> "none", item |-> None, attempt |-> 0, fetches |-> 0,
           timer |-> FALSE, waits |-> <<>>, classes |-> <<>>, upstream |-> "none",
           lastError |-> None, outcome |-> None]

\* the buttons: "Run Full Analysis", "Extract Text", "Generate Summaries"
Modes == {"comprehensive", "extract", "summary"}

FirstPass(mode) == CASE mode = "comprehensive" -> 1
                     [] mode = "extract" -> 1
                     [] mode = "summary" -> 6

StageOfRun == PassOrder[run.pass]

\* buttons that do not look at isProcessing
ButtonEnabledWhileProcessing(mode) ==
    /\ Len(uploadedFiles) > 0
    /\ mode = "extract" => canExtractText
    /\ mode = "summary" => hasExtractedText /\ canGenerateSummaries

\* disabled={...} and the conditional rendering of each button
ButtonEnabled(mode) ==
    /\ ~isProcessing
    /\ Len(uploadedFiles) > 0
    /\ mode = "extract" => canExtractText
    /\ mode = "summary" => hasExtractedText /\ canGenerateSummaries

\* a click: the callback of the current render starts, holding the
\* collection of that render
StartRun(mode) ==
    /\ pc = "idle"
    /\ runs < MaxRuns
    /\ ButtonEnabled(mode)
    /\ run' = [NoRun EXCEPT !.mode = mode, !.files = uploadedFiles,
                            !.pass = FirstPass(mode)]
    /\ isProcessing' = (mode = "comprehensive" \/ isProcessing)
    /\ runs' = runs + 1
    /\ pc' = "pass"
    /\ UNCHANGED <<uploadedFiles, activeTab, readers, nextId, call, toasts, dispatched, removed, faults, scenario>>

\* entry of a stage pass: setIsProcessing(true) and the filter
PassBegin ==
    /\ pc = "pass"
    /\ isProcessing' = TRUE
    /\ run' = [run EXCEPT !.queue = FilesFor(run.files, StageOfRun),
                          !.selected = Len(FilesFor(run.files, StageOfRun)),
                          !.settled = 0,
                          !.passes = run.passes + 1]
    /\ pc' = "item"
    /\ UNCHANGED <<uploadedFiles, activeTab, readers, nextId, call, toasts, runs, dispatched, removed, faults, scenario>>

\* a single-stage button that goes on through the later passes as well
NextPassAnyMode(mode, p) == IF p < Len(PassOrder) THEN p + 1 ELSE 0

\* the pass that follows pass p in a run of the given mode; 0 when the run
\* returns
NextPass(mode, p) == IF mode = "comprehensive" /\ p < Len(PassOrder) THEN p + 1 ELSE 0

\* the for loop is over: setIsProcessing(false); the comprehensive run goes
\* on to its next pass, or issues its notice and returns
PassEnd ==
    /\ pc = "item"
    /\ run.queue = <<>>
    /\ isProcessing' = FALSE
    /\ IF NextPass(run.mode, run.pass) # 0
       THEN /\ run' = [run EXCEPT !.pass = NextPass(run.mode, run.pass)]
            /\ pc' = "pass"
            /\ UNCHANGED <<activeTab, toasts>>
       ELSE /\ run' = NoRun
            /\ pc' = "idle"
            /\ activeTab' = IF run.mode = "comprehensive" THEN "dashboard" ELSE activeTab
            /\ toasts' = IF run.mode = "comprehensive"
                         THEN "Comprehensive analysis complete" ELSE toasts
    /\ UNCHANGED <<uploadedFiles, readers, nextId, call, runs, dispatched, removed, faults, scenario>>

\* the k-th call of the client for (id, stage), k capped at 2
Dispatches(hist, id, s) ==
    IF <<id, s, 1>> \in hist THEN hist \cup {<<id, s, 2>>} ELSE hist \cup {<<id, s, 1>>}

\* setUploadedFiles(prev => prev.map(f => f.id === id ? {...f, flag: true} : f))
MarkInProgress(files, id, s) ==
    MapById(files, id, FlagField[s], TRUE)

\* one iteration of the for loop up to the client's first suspension: mark
\* the file, call the client, which either throws from its checks or has
\* its first request in flight
Dispatch ==
    /\ pc = "item"
    /\ run.queue # <<>>
    /\ LET u == Head(run.queue)
           s == StageOfRun
           pre == PreValidate(s, u)
       IN  /\ uploadedFiles' = MarkInProgress(uploadedFiles, u.id, s)
           /\ dispatched' = Dispatches(dispatched, u.id, s)
           /\ IF Truthy(pre)
              THEN /\ call' = [NoCall EXCEPT !.stage = s, !.item = Some(u),
                                  !.outcome = Some([ok |-> FALSE, value |-> None,
                                                    error |-> pre])]
                   /\ pc' = "settle"
              ELSE /\ call' = [NoCall EXCEPT !.stage = s, !.item = Some(u),
                                  !.attempt = 1, !.fetches = 1,
                                  !.timer = (s \in Retrying)]
                   /\ pc' = "fetch"
    /\ UNCHANGED <<isProcessing, activeTab, readers, nextId, run, toasts, runs, removed, faults, scenario>>

Failed(e) == Some([ok |-> FALSE, value |-> None, error |-> Some(e)])
Succeeded(v) == Some([ok |-> TRUE, value |-> Some(v), error |-> None])

\* fetch resolves with the response (status and headers are there, the
\* body is not yet read): clearTimeout(timeoutId).  The client goes on to
\* await response.json() with no timer set.
ResponseBegins ==
    /\ pc = "fetch"
    /\ call.timer
    /\ call' = [call EXCEPT !.timer = FALSE]
    /\ UNCHANGED <<uploadedFiles, isProcessing, activeTab, readers, nextId, run, pc,
                   toasts, runs, dispatched, removed, faults, scenario>>

\* the request of a retrying client is answered with a result
RespondOk ==
    /\ pc = "fetch"
    /\ \E v \in OkPayloads(call.stage, Val(call.item)) :
       \E up \in Causes(call.stage, Val(call.item), TRUE, v) :
           call' = [call EXCEPT !.outcome = Succeeded(v), !.upstream = up,
                                !.timer = FALSE]
    /\ pc' = "settle"
    /\ UNCHANGED <<uploadedFiles, isProcessing, activeTab, readers, nextId, run,
                   toasts, runs, dispatched, removed, faults, scenario>>

\* the request fails (error body, rejected fetch, abort by the timer): the
\* catch block of the retrying clients, a plain throw in the other four
RespondError ==
    /\ pc = "fetch"
    /\ scenario # "client" => faults < MaxFaults
    /\ faults' = IF scenario # "client" THEN faults + 1 ELSE faults
    /\ \E e \in FailureReplies(call.stage, Val(call.item)) :
       /\ IsAbort(e) => call.timer
       /\ IF call.stage \in Retrying
          THEN LET after == AfterFailure(call.stage, Val(call.item).type, e, call.attempt)
                   failed == [call EXCEPT !.lastError = Some(e),
                                          !.timer = FALSE,
                                          !.classes = Append(call.classes,
                                                             Classify(call.stage, e))]
               IN  CASE after.to = "throw" ->
                           /\ call' = [failed EXCEPT !.outcome = Failed(after.error)]
                           /\ pc' = "settle"
                     [] after.to = "exhausted" ->
                           /\ call' = [failed EXCEPT
                                          !.outcome = Failed(ExhaustedError(call.stage, Some(e)))]
                           /\ pc' = "settle"
                     [] OTHER ->
                           /\ call' = failed
                           /\ pc' = after.to
          ELSE /\ \E up \in Causes(call.stage, Val(call.item), FALSE, e) :
                      call' = [call EXCEPT !.outcome = Failed(e), !.upstream = up]
               /\ pc' = "settle"
    /\ UNCHANGED <<uploadedFiles, isProcessing, activeTab, readers, nextId, run,
                   toasts, runs, dispatched, removed, scenario>>

\* the sleep of the "rate limit" branch is over
RateLimitWaitDone ==
    /\ pc = "ratelimit"
    /\ LET waited == [call EXCEPT !.waits = Append(call.waits,
                                     RateLimitWait(call.stage, call.attempt))]
       IN  IF AfterRateLimitWait(call.attempt) = "exhausted"
           THEN /\ call' = [waited EXCEPT !.outcome =
                               Failed(ExhaustedError(call.stage, call.lastError))]
                /\ pc' = "settle"
           ELSE /\ call' = waited
                /\ pc' = "backoff"
    /\ UNCHANGED <<uploadedFiles, isProcessing, activeTab, readers, nextId, run,
                   toasts, runs, dispatched, removed, faults, scenario>>

\* the exponential-backoff sleep is over: next iteration, next request
BackoffDone ==
    /\ pc = "backoff"
    /\ call' = [call EXCEPT !.waits = Append(call.waits, BackoffWait(call.attempt)),
                            !.attempt = call.attempt + 1,
                            !.fetches = call.fetches + 1,
                            !.timer = TRUE]
    /\ pc' = "fetch"
    /\ UNCHANGED <<uploadedFiles, isProcessing, activeTab, readers, nextId, run,
                   toasts, runs, dispatched, removed, faults, scenario>>

\* error instanceof Error ? error.message : "Unknown error"
MessageOf(e) == [prefix |-> e.prefix, attempts |-> e.attempts, text |-> e.text]

\* a catch block that records the error and forgets the flag
ApplyOutcomeKeepsFlag(files, id, s, outcome) ==
    IF outcome.ok
    THEN MapById(MapById(files, id, ResultField[s], outcome.value),
                 id, FlagField[s], FALSE)
    ELSE MapById(files, id, ErrorField[s], Some(MessageOf(Val(outcome.error))))

\* the setUploadedFiles of the try block or of the catch block
ApplyOutcome(files, id, s, outcome) ==
    IF outcome.ok
    THEN MapById(MapById(files, id, ResultField[s], outcome.value),
                 id, FlagField[s], FALSE)
    ELSE MapById(MapById(files, id, ErrorField[s], Some(MessageOf(Val(outcome.error)))),
                 id, FlagField[s], FALSE)

\* a loop that a failure breaks out of
RemainingQueueAbort(queue, outcome) == IF outcome.ok THEN Tail(queue) ELSE <<>>

\* what is left of the for loop after an iteration
RemainingQueue(queue, outcome) == Tail(queue)

\* the client returned or threw: record it and go on with the loop
Settle ==
    /\ pc = "settle"
    /\ LET u == Val(call.item)
           outcome == Val(call.outcome)
       IN  /\ uploadedFiles' = ApplyOutcome(uploadedFiles, u.id, call.stage, outcome)
           /\ run' = [run EXCEPT !.queue = RemainingQueue(run.queue, outcome),
                                 !.settled = run.settled + 1]
    /\ call' = NoCall
    /\ pc' = "item"
    /\ UNCHANGED <<isProcessing, activeTab, readers, nextId, toasts, runs, dispatched,
                   removed, faults, scenario>>

----------------------------------------------------------------------------
(* Specification *)

Init ==
    /\ uploadedFiles = <<>>
    /\ isProcessing = FALSE
    /\ activeTab = "upload"
    /\ readers = <<>>
    /\ nextId = 1
    /\ run = NoRun
    /\ pc = "idle"
    /\ call = NoCall
    /\ toasts = "none"
    /\ runs = 0
    /\ dispatched = {}
    /\ faults = 0
    /\ removed = {}
    /\ scenario \in Scenarios

\* the FileList of a drop or of a file selection
Batches == UNION {[1..n -> FileInputs] : n \in 1..IdLimit}

Next ==
    \/ \E files \in Batches : processFiles(files)
    \/ \E r \in 1..Len(readers) : \E k \in 1..Len(readers[r].pending) : onload(r, k)
    \/ \E i \in 1..Len(uploadedFiles) : removeFile(uploadedFiles[i].id)
    \/ \E mode \in Modes : StartRun(mode)
    \/ PassBegin
    \/ PassEnd
    \/ Dispatch
    \/ ResponseBegins
    \/ RespondOk
    \/ RespondError
    \/ RateLimitWaitDone
    \/ BackoffDone
    \/ Settle

Spec == Init /\ [][Next]_vars

\* the same program explored in one scenario only
ClientInit == Init /\ scenario = "client"
ClientSpec == ClientInit /\ [][Next]_vars

StagedInit == Init /\ scenario = "staged"
StagedSpec == StagedInit /\ [][Next]_vars

----------------------------------------------------------------------------
(* Stage state of a record, read off its three fields *)

InProgress(f, s) == f[FlagField[s]]
HasResult(f, s) == Truthy(f[ResultField[s]])
HasError(f, s) == Truthy(f[ErrorField[s]])

NotStarted(f, s) == ~InProgress(f, s) /\ ~HasResult(f, s) /\ ~HasError(f, s)
IsSucceeded(f, s) == HasResult(f, s) /\ ~InProgress(f, s) /\ ~HasError(f, s)
IsFailed(f, s) == HasError(f, s) /\ ~InProgress(f, s) /\ ~HasResult(f, s)

\* the stage graph of the specification
Prerequisites(s) ==
    CASE s \in {"summary", "structure", "quality"} -> {"extract"}
      [] s = "specialized" -> {"extract", "structure"}
      [] OTHER -> {}

AppliesTo(s, type) == s = "image" => type = "image"

ExtraEligibility(f, s) ==
    s = "specialized" =>
        Val(f.documentStructure).documentType \in SpecializedTypes

Runnable(f, s) ==
    /\ AppliesTo(s, f.type)
    /\ NotStarted(f, s)
    /\ \A p \in Prerequisites(s) : IsSucceeded(f, p)
    /\ ExtraEligibility(f, s)

Live == Range(uploadedFiles)
IdsOf(files) == {files[i].id : i \in 1..Len(files)}

\* the comprehensive run returns in this step
ComprehensiveReturns == pc = "item" /\ pc' = "idle" /\ run.mode = "comprehensive"

\* the outcome of the client call that is being settled
SettlingFailure == pc = "settle" /\ ~Val(call.outcome).ok
SettlingError == Val(Val(call.outcome).error)

----------------------------------------------------------------------------
(* C1: when a call of runComprehensiveAnalysis returns, no stage of a file *)
(* that was in the collection at its start is still runnable.              *)

C1_RunLeavesNothingRunnable ==
    [][ComprehensiveReturns =>
          \A i \in 1..Len(uploadedFiles') :
              uploadedFiles'[i].id \in IdsOf(run.files) =>
                  \A s \in Stages : ~Runnable(uploadedFiles'[i], s)]_vars

----------------------------------------------------------------------------
(* C2: one call of extractTextFromFile or generateSummary makes at most    *)
(* MAX_RETRIES requests, whatever the replies.                             *)

C2_AtMostMaxAttempts ==
    call.stage \in Retrying =>
        /\ call.fetches <= MAX_RETRIES
        /\ call.attempt <= MAX_RETRIES

\* all three requests were made and the call is returning its failure
C2_Witness ==
    /\ SettlingFailure
    /\ call.stage \in Retrying
    /\ call.fetches = MAX_RETRIES
    /\ SettlingError.attempts = MAX_RETRIES

----------------------------------------------------------------------------
(* C3 as stated: a call that ends with a failure classified as validation  *)
(* has made exactly one request.                                           *)

C3_ValidationCostsOneRequest ==
    (SettlingFailure /\ call.stage \in Retrying
        /\ IsValidationError(call.stage, SettlingError))
    => call.fetches = 1

(* C3 amended: a validation failure is never retried.  Input rejected by   *)
(* the client's own checks ends the call before any request is made; a     *)
(* reply classified as validation ends the call with no further request;   *)
(* either way the failure is then recorded on the file, which ends Failed. *)

C3_ValidationIsNotRetried ==
    [][/\ (pc = "item" /\ pc' = "settle") =>
              /\ call'.fetches = 0
              /\ IsValidationError(call'.stage, Val(Val(call'.outcome).error))
       /\ (pc = "fetch" /\ call.stage \in Retrying /\ call' # call
              /\ Truthy(call'.lastError)
              /\ IsValidationError(call.stage, Val(call'.lastError))) =>
              /\ pc' = "settle"
              /\ call'.fetches = call.fetches
              /\ call'.outcome = Failed(Val(call'.lastError))
       /\ SettlingFailure =>
              \A g \in Range(uploadedFiles') :
                  g.id = Val(call.item).id =>
                      /\ g[ErrorField[call.stage]] = Some(MessageOf(SettlingError))
                      /\ ~InProgress(g, call.stage)]_vars

\* a text below the minimum is rejected without a request
C3_Witness ==
    /\ SettlingFailure
    /\ call.stage = "summary"
    /\ SettlingError.text = TextTooShortMsg
    /\ call.fetches = 0

----------------------------------------------------------------------------
(* C4 as stated: a timeout is returned as the final failure only once      *)
(* MAX_RETRIES attempts have been used.                                    *)

TimedOut == Truthy(call.lastError) /\ IsAbort(Val(call.lastError))

----------------------------------------------------------------------------
(* C5: a (file, stage) that is in progress, succeeded or failed never      *)
(* satisfies the filter that selects work; what the filter selects is not  *)
(* started and has every prerequisite succeeded.                           *)

C5_FilterSelectsOnlyNotStarted ==
    \A f \in Live : \A s \in Stages :
        StageFilter(f, s) =>
            /\ NotStarted(f, s)
            /\ \A p \in Prerequisites(s) : IsSucceeded(f, p)

----------------------------------------------------------------------------
(* C6: a stage is never started on a file one of whose prerequisites has   *)
(* not succeeded; a stage behind a failed prerequisite stays not started.  *)

C6_NoStageWithoutPrerequisites ==
    \A f \in Live : \A s \in Stages :
        ~NotStarted(f, s) => \A p \in Prerequisites(s) : IsSucceeded(f, p)

----------------------------------------------------------------------------
(* C7: once a (file, stage) is Failed, no step marks it in progress or     *)
(* calls its client again.                                                 *)

C7_FailedIsNeverRestarted ==
    [][\A f \in Live : \A s \in Stages :
          (HasError(f, s) /\ ~InProgress(f, s)) =>
              /\ \A g \in Range(uploadedFiles') :
                    g.id = f.id => ~InProgress(g, s)
              /\ ~(pc = "item" /\ pc' \in {"fetch", "settle"}
                     /\ call'.stage = s /\ Val(call'.item).id = f.id)]_vars

----------------------------------------------------------------------------
(* C8: per file and stage the only changes are NotStarted -> InProgress    *)
(* and InProgress -> Succeeded or Failed; never a result together with an  *)
(* error, never the in-progress flag together with a result or an error.   *)

C8_LegalStageStates ==
    \A f \in Live : \A s \in Stages :
        /\ ~(HasResult(f, s) /\ HasError(f, s))
        /\ InProgress(f, s) => ~HasResult(f, s) /\ ~HasError(f, s)

----------------------------------------------------------------------------
(* C9: a failure does not abort anything else.  After a failed call the    *)
(* for loop goes on with the next selected file of the same pass; a pass   *)
(* ends only when every file it selected has been handled; and the         *)
(* comprehensive run returns only after all six passes.                    *)

C9_FailureIsContained ==
    [][/\ SettlingFailure =>
              /\ pc' = "item"
              /\ run'.queue = Tail(run.queue)
              /\ run'.pass = run.pass
       /\ (pc = "item" /\ pc' \in {"pass", "idle"}) => run.settled = run.selected
       /\ ComprehensiveReturns => run.passes = Len(PassOrder)]_vars

\* a file of the pass has failed and the next file of the pass is called
C9_Witness ==
    /\ pc = "fetch"
    /\ run.settled >= 1
    /\ \E f \in Live : f.id # Val(call.item).id /\ IsFailed(f, call.stage)

----------------------------------------------------------------------------
(* C10: the client of a (file id, stage) pair is called at most once.      *)

C10_DispatchedAtMostOnce == \A d \in dispatched : d[3] = 1

----------------------------------------------------------------------------
(* C11: no two records of the collection have the same id.                 *)

C11_UniqueIds ==
    \A i, j \in 1..Len(uploadedFiles) :
        i # j => uploadedFiles[i].id # uploadedFiles[j].id

----------------------------------------------------------------------------
(* Liveness.  The remote side owes no answer, so RespondOk and             *)
(* RespondError are not fair in general.  What the JavaScript runtime      *)
(* guarantees is that a continuation that is ready runs, and that a timer  *)
(* that was set fires: the two sleeps, and the abort timer that            *)
(* extractTextFromFile and generateSummary set before each request.  The   *)
(* other four clients set no timer.                                        *)

\* setTimeout(() => controller.abort(), TIMEOUT_MS) fires: the pending
\* request of a retrying client is rejected with AbortError
TimerFires ==
    /\ call.stage \in Retrying
    /\ RespondError
    /\ call'.lastError = Some(AbortError)

FairClientSpec ==
    /\ ClientSpec
    /\ WF_vars(PassBegin) /\ WF_vars(PassEnd) /\ WF_vars(Dispatch) /\ WF_vars(Settle)
    /\ WF_vars(RateLimitWaitDone) /\ WF_vars(BackoffDone)
    /\ WF_vars(TimerFires)

(* C12: a stage that is in progress on a file eventually stops being in    *)
(* progress (it succeeded or failed), even if the remote side never        *)
(* answers.                                                                *)

C12_InProgressEnds ==
    \A s \in Stages :
        (\E f \in Live : InProgress(f, s)) ~> (\A f \in Live : ~InProgress(f, s))

\* a retrying client does not wait for the response beyond its timer:
\* the timer is armed only until the response, the abort or a rejection
\* of the fetch
TimerBoundsTheFetch ==
    (pc = "fetch" /\ call.timer) ~> ~(pc = "fetch" /\ call.timer)

----------------------------------------------------------------------------
(* Failure classes of the specification, read off a failed attempt: the    *)
(* abort of the timer is Timeout, a message the client's validation test   *)
(* matches (or a size limit of a route) is Validation, a message           *)
(* containing "rate limit" is RateLimited, anything else is Transient.     *)

\* the failure of the attempt that ended the call
FailureCause == IF Truthy(call.lastError) THEN Val(call.lastError) ELSE SettlingError

IsTransient(s, e) ==
    /\ ~IsAbort(e)
    /\ ~IsRateLimit(e)
    /\ ~IsValidationError(s, e)
    /\ ~Includes(e.text, "too large")

(* C13: for each of the six stages, a call ends with a Transient failure   *)
(* only after MAX_RETRIES attempts, each but the last followed by a wait.  *)

C13_TransientIsRetried ==
    (SettlingFailure /\ IsTransient(call.stage, FailureCause)) =>
        /\ call.attempt = MAX_RETRIES
        /\ Len(call.waits) >= MAX_RETRIES - 1

\* the same for the two clients that have a retry loop
RetryingTransientIsRetried ==
    (SettlingFailure /\ call.stage \in Retrying
        /\ IsTransient(call.stage, FailureCause)) =>
        /\ call.attempt = MAX_RETRIES
        /\ Len(call.waits) >= MAX_RETRIES - 1

----------------------------------------------------------------------------
RECURSIVE SumSeq(_)
SumSeq(s) == IF s = <<>> THEN 0 ELSE Head(s) + SumSeq(Tail(s))

\* the client call is returning a result
SettlingSuccess == pc = "settle" /\ Val(call.outcome).ok

(* C14: when extraction fails with a Transient failure on attempts 1 and   *)
(* 2 and succeeds on attempt 3, the call has slept BackoffBaseMs * 1 and   *)
(* BackoffBaseMs * 2 and nothing else, and the stage ends Succeeded.       *)

C14_TwoTransientThenSuccess ==
    [][(SettlingSuccess /\ call.stage = "extract"
           /\ call.classes = <<"Transient", "Transient">>) =>
          /\ call.attempt = MAX_RETRIES
          /\ call.waits = <<BackoffBaseMs * 1, BackoffBaseMs * 2>>
          /\ SumSeq(call.waits) = BackoffBaseMs * 1 + BackoffBaseMs * 2
          /\ \A g \in Range(uploadedFiles') :
                g.id = Val(call.item).id => IsSucceeded(g, "extract")]_vars

\* the third attempt succeeded after two Transient failures
C14_Witness ==
    /\ SettlingSuccess
    /\ call.stage = "extract"
    /\ call.attempt = MAX_RETRIES
    /\ call.classes = <<"Transient", "Transient">>

----------------------------------------------------------------------------
(* The sleeps of a call grouped by the failed attempt they follow: one     *)
(* sleep after a Transient failure, two (the rate-limit sleep, then the    *)
(* backoff) after a RateLimited one.  Read when a request is in flight,    *)
(* so that every sleep of the failed attempts is over.                     *)

RECURSIVE AttemptWaits(_, _)
AttemptWaits(classes, waits) ==
    IF classes = <<>> \/ waits = <<>> THEN <<>>
    ELSE IF Head(classes) = "RateLimited"
    THEN <<waits[1] + waits[2]>>
             \o AttemptWaits(Tail(classes), SubSeq(waits, 3, Len(waits)))
    ELSE <<waits[1]>> \o AttemptWaits(Tail(classes), Tail(waits))

NonDecreasing(s) == \A i \in 1..(Len(s) - 1) : s[i] <= s[i + 1]

\* a request of a retrying client is in flight
Requesting == pc = "fetch" /\ call.stage \in Retrying

(* C15 as stated: whatever the classes of the failed attempts, the wait    *)
(* before attempt k+1 is never smaller than the wait before attempt k.     *)

C15_WaitsNeverDecrease ==
    Requesting => NonDecreasing(AttemptWaits(call.classes, call.waits))

(* C15 amended: the waits do not decrease as long as the failed attempts   *)
(* all have the same class.                                                *)

C15_WaitsOfOneClassNeverDecrease ==
    (Requesting /\ \A i, j \in 1..Len(call.classes) : call.classes[i] = call.classes[j])
    => NonDecreasing(AttemptWaits(call.classes, call.waits))

\* the third request is in flight after two RateLimited failures
C15_Witness ==
    /\ Requesting
    /\ call.attempt = MAX_RETRIES
    /\ call.classes = <<"RateLimited", "RateLimited">>
    /\ Len(AttemptWaits(call.classes, call.waits)) = MAX_RETRIES - 1

----------------------------------------------------------------------------
(* C16: after a RateLimited failure of attempt k the call sleeps exactly   *)
(* the rate-limit wait of attempt k before attempt k+1, and nothing on     *)
(* top of it.                                                              *)

C16_RateLimitWaitIsExact ==
    Requesting =>
        \A k \in 1..Len(call.classes) :
            call.classes[k] = "RateLimited" =>
                AttemptWaits(call.classes, call.waits)[k] = RateLimitWait(call.stage, k)

----------------------------------------------------------------------------
(* C17: no sleep follows the last attempt: a call that is sleeping has     *)
(* attempts left, and a call that fails on its last attempt has slept      *)
(* only after the attempts before it.                                      *)

C17_NoSleepAfterLastAttempt ==
    /\ pc \in {"ratelimit", "backoff"} => call.attempt < MAX_RETRIES
    /\ (SettlingFailure /\ call.stage \in Retrying /\ call.attempt = MAX_RETRIES) =>
           Len(AttemptWaits(call.classes, call.waits)) <= MAX_RETRIES - 1

----------------------------------------------------------------------------
\* an attempt of a retrying client fails in this step
AttemptFails == Requesting /\ call'.classes # call.classes

\* the failure it fails with
FailingWith == Val(call'.lastError)

(* C18: when a request of generateSummary is answered with the rate-limit  *)
(* error of the generate-summary route, the attempt is classified          *)
(* RateLimited and the call goes to the rate-limit sleep.                  *)

C18_RouteRateLimitIsRateLimited ==
    [][(AttemptFails /\ call.stage = "summary" /\ FailingWith.text = RouteRateLimitMsg) =>
          /\ Classify("summary", FailingWith) = "RateLimited"
          /\ pc' = "ratelimit"]_vars

----------------------------------------------------------------------------
Retryable == {"Transient", "RateLimited"}

\* every attempt the loop allows was made and failed with a retryable failure
AllAttemptsFailed ==
    /\ SettlingFailure
    /\ call.stage \in Retrying
    /\ Len(call.classes) = MAX_RETRIES
    /\ \A i \in 1..Len(call.classes) : call.classes[i] \in Retryable

(* C19: when all MAX_RETRIES attempts of a call failed with retryable      *)
(* failures, the stage ends Failed and its error carries the message of    *)
(* the last failure and the attempt count MAX_RETRIES.                     *)

C19_ExhaustionIsReported ==
    [][AllAttemptsFailed =>
          \A g \in Range(uploadedFiles') :
              g.id = Val(call.item).id =>
                  /\ IsFailed(g, call.stage)
                  /\ Val(g[ErrorField[call.stage]]).text = Val(call.lastError).text
                  /\ Val(g[ErrorField[call.stage]]).attempts = MAX_RETRIES]_vars

\* a file whose extraction failed three times, the last time in the OCR
C19_Witness ==
    \E f \in Live :
        /\ IsFailed(f, "extract")
        /\ Val(f.extractionError).attempts = MAX_RETRIES
        /\ Val(f.extractionError).text = OcrFailedMsg

----------------------------------------------------------------------------
(* Declared input limits                                                   *)

\* the input of stage s is outside the limit declared for it
ViolatesLimit(s, u) ==
    CASE s = "extract" -> u.size > ExtractSizeLimitMB
      [] s = "image" -> u.type = "image" /\ u.size > ImageSizeLimitMB
      [] s = "summary" ->
            \/ Val(u.extractedText).wordCount < MinSummaryWords
            \/ Val(u.extractedText).wordCount > MaxSummaryWords
      [] OTHER -> FALSE

\* a client call is under way for an item
Calling == call.stage \in Stages /\ Truthy(call.item)

\* C20: an input over a declared limit (document over 50 MB, image over
\* 10 MB, text under 10 or over 15,000 words) is refused before dispatch:
\* its call makes no request, is not retried, and leaves the file Failed
\* at that stage; a text of exactly 10 or exactly 15,000 words is sent.
C20_LimitViolationsAreNotDispatched ==
    [][/\ (Calling /\ ViolatesLimit(call.stage, Val(call.item))) =>
              /\ call.fetches = 0
              /\ call.attempt = 0
              /\ SettlingFailure
              /\ \A g \in Range(uploadedFiles') :
                     g.id = Val(call.item).id => IsFailed(g, call.stage)
       /\ (/\ Calling
           /\ call.stage = "summary"
           /\ Val(Val(call.item).extractedText).wordCount
                  \in {MinSummaryWords, MaxSummaryWords}) => call.fetches >= 1]_vars

\* the document and word-count limits alone, which the clients do check
\* before the first request
ClientLimitViolationsAreNotDispatched ==
    [][(Calling /\ call.stage \in Retrying /\ ViolatesLimit(call.stage, Val(call.item))) =>
              /\ call.fetches = 0
              /\ call.attempt = 0
              /\ SettlingFailure
              /\ \A g \in Range(uploadedFiles') :
                     g.id = Val(call.item).id => IsFailed(g, call.stage)]_vars

----------------------------------------------------------------------------
(* The stages the filters select for one record *)

\* the stages whose pass would take f
SelectedStages(f) == {s \in Stages : StageFilter(f, s)}

\* a document whose text of 500 words has been extracted, nothing else begun
FreshlyExtracted(f) ==
    /\ f.type = "pdf"
    /\ IsSucceeded(f, "extract")
    /\ Val(f.extractedText).wordCount = 500
    /\ \A s \in Stages \ {"extract"} : NotStarted(f, s)

\* C21: for a document whose extraction succeeded with a text of 500 words
\* and no other stage started, the filters select exactly summary,
\* structure and quality: not image (wrong kind), not specialized (no
\* structure result yet).
C21_ExtractedDocumentStages ==
    \A f \in Live :
        FreshlyExtracted(f) => SelectedStages(f) = {"summary", "structure", "quality"}

C21_Witness ==
    \E f \in Live :
        /\ FreshlyExtracted(f)
        /\ SelectedStages(f) = {"summary", "structure", "quality"}
        /\ run.mode = "comprehensive"

----------------------------------------------------------------------------
(* Specialized analysis depends on the document type found by the          *)
(* structure analysis                                                      *)

DocumentTypeOf(f) == Val(f.documentStructure).documentType

\* performSpecializedAnalysis has been called for the file with this id
SpecializedCalled(id) == \E d \in dispatched : d[1] = id /\ d[2] = "specialized"

\* C22: once the structure analysis of a file has succeeded with type
\* "invoice", the specialized filter selects the file (until that stage is
\* started); with type "letter", or any type outside invoice, contract and
\* resume, the filter never selects it and performSpecializedAnalysis is
\* never called for it.
C22_SpecializedFollowsDocumentType ==
    \A f \in Live :
        IsSucceeded(f, "structure") =>
            /\ (DocumentTypeOf(f) = "invoice" /\ NotStarted(f, "specialized")) =>
                   StageFilter(f, "specialized")
            /\ DocumentTypeOf(f) \notin {"invoice", "contract", "resume"} =>
                   /\ ~StageFilter(f, "specialized")
                   /\ ~SpecializedCalled(f.id)

\* a letter whose structure is known and that three whole runs have passed
\* over, the last of them with the structure result in its snapshot
C22_Witness ==
    \E f \in Live :
        /\ IsSucceeded(f, "structure")
        /\ DocumentTypeOf(f) = "letter"
        /\ runs = MaxRuns
        /\ pc = "idle"

\* an invoice for which the third run called performSpecializedAnalysis
C22_InvoiceWitness ==
    \E f \in Live :
        /\ IsSucceeded(f, "structure")
        /\ DocumentTypeOf(f) = "invoice"
        /\ SpecializedCalled(f.id)

----------------------------------------------------------------------------
(* Image analysis when a model behind the route fails *)

\* analyzeImage is returning or throwing for a request during which the
\* captioning model or the object-detection model failed
SettlingUpstreamFailure ==
    /\ pc = "settle"
    /\ call.stage = "image"
    /\ call.upstream \in {"captionFailed", "detectionFailed"}

SettledValue == Val(Val(call.outcome).value)

\* the record of the settled call holds this image analysis, Succeeded
ImageSucceedsWith(files, v) ==
    \A g \in Range(files) :
        g.id = Val(call.item).id =>
            IsSucceeded(g, "image") /\ g.imageAnalysis = Some(v)

\* C23 as stated: a failure of the captioning model or of the
\* object-detection model ends the image analysis Succeeded with the
\* placeholder result, never Failed.
C23_UpstreamFailureGivesPlaceholder ==
    [][SettlingUpstreamFailure =>
          /\ Val(call.outcome).ok
          /\ SettledValue = FallbackAnalysis
          /\ ImageSucceedsWith(uploadedFiles', FallbackAnalysis)]_vars

\* C23, amended: neither failure makes the stage Failed; a failed
\* captioning model gives the placeholder result, a failed object-detection
\* model gives the ordinary result with the model's description and an
\* empty object list.
C23_UpstreamFailureNeverFails ==
    [][SettlingUpstreamFailure =>
          /\ Val(call.outcome).ok
          /\ ImageSucceedsWith(uploadedFiles', SettledValue)
          /\ call.upstream = "captionFailed" => SettledValue = FallbackAnalysis
          /\ call.upstream = "detectionFailed" =>
                 SettledValue = [description |-> "caption", objects |-> "none"]]_vars

C23_Witness ==
    \E f \in Live :
        /\ IsSucceeded(f, "image")
        /\ f.imageAnalysis = Some(FallbackAnalysis)

----------------------------------------------------------------------------
(* Failures of the analysis behind the stages other than image analysis *)

\* the text of the record is the sentence the extract-text route writes
\* when pdf-parse throws
HoldsPlaceholderText(f) ==
    HasResult(f, "extract") /\ Val(f.extractedText).text = PdfParseFailedText

\* C24: outside image analysis, a failure of the underlying analysis (PDF
\* parsing failing during extract) ends the stage Failed: the failed call
\* does not return a result, no record holds placeholder content as its
\* result, and no later stage is called with it.
C24_AnalysisFailureIsFailed ==
    /\ (pc = "settle" /\ call.stage # "image" /\ call.upstream # "none") =>
           ~Val(call.outcome).ok
    /\ \A f \in Live : ~HoldsPlaceholderText(f)
    /\ (call.stage \in Stages \ {"extract", "image"} /\ Truthy(call.item)) =>
           ~HoldsPlaceholderText(Val(call.item))

\* the placeholder text reaches the summary route
C24_PlaceholderIsSummarized ==
    /\ call.stage = "summary"
    /\ pc = "fetch"
    /\ HoldsPlaceholderText(Val(call.item))

----------------------------------------------------------------------------
(* Leaving the Failed state *)

\* a step of the program after which stage s of the record with this id is
\* NotStarted again while the record is still the one that failed
ResetsStage(id, s) ==
    /\ Next
    /\ \E g \in Range(uploadedFiles') : g.id = id /\ NotStarted(g, s)

\* a step that takes stage s of the record with this id out of Failed
LeavesFailed(id, s) ==
    /\ \E f \in Live : f.id = id /\ IsFailed(f, s)
    /\ \E g \in Range(uploadedFiles') : g.id = id /\ ~IsFailed(g, s)

\* C25: a retry of a Failed stage is accepted: while no run is under way,
\* the program has a step that puts a Failed stage of a record back to
\* NotStarted, so that the next run dispatches it again.
C25_FailedCanBeRetried ==
    \A f \in Live : \A s \in Stages :
        (IsFailed(f, s) /\ pc = "idle") => ENABLED ResetsStage(f.id, s)

\* what the program does instead: once Failed, a stage of a record stays
\* Failed for as long as the record exists
FailedIsFinal ==
    [][\A f \in Live : \A s \in Stages : ~LeavesFailed(f.id, s)]_vars

----------------------------------------------------------------------------
(* Cancelling a run *)

\* the request of the client call for stage s of this record is in flight
InFlight(f, s) ==
    /\ pc = "fetch"
    /\ call.stage = s
    /\ Val(call.item).id = f.id
    /\ InProgress(f, s)

\* a step of the program that gives up the call in flight, puts the stage of
\* the record back to NotStarted and ends the run
CancelsRun(id, s) ==
    /\ Next
    /\ call' = NoCall
    /\ pc' = "idle"
    /\ \E g \in Range(uploadedFiles') : g.id = id /\ NotStarted(g, s)

\* C26: a run can be cancelled while an item is InProgress: the program has
\* a step that aborts the call in flight, returns the item to NotStarted
\* (not to Failed) and after which the run dispatches nothing.
C26_RunCanBeCancelled ==
    \A f \in Live : \A s \in Stages :
        InFlight(f, s) => ENABLED CancelsRun(f.id, s)

\* what the program does instead: an InProgress stage of a record never
\* goes back to NotStarted; it ends with a result or with an error
InProgressNeverReverts ==
    [][\A f \in Live : \A s \in Stages :
           InProgress(f, s) =>
               \A g \in Range(uploadedFiles') : g.id = f.id => ~NotStarted(g, s)]_vars

----------------------------------------------------------------------------
(* Single-stage runs: the buttons "Extract Text" and "Generate Summaries" *)

\* the three fields that hold the state of stage s of a record
Slot(f, s) == <<f[ResultField[s]], f[FlagField[s]], f[ErrorField[s]]>>

SingleStage == run.mode \in {"extract", "summary"}

\* no record was added or removed between the two collections
SameRecords(before, after) ==
    /\ Len(after) = Len(before)
    /\ \A i \in 1..Len(before) : after[i].id = before[i].id

\* C27: a run of extractTextFromFiles or generateSummaries on its own
\* calls only the client of its stage, leaves the slots of the other five
\* stages of every record as they are (also where its results make other
\* stages selectable), and its filter selects what the pass of the same
\* stage in a comprehensive run started in the same state selects.
C27_SingleStageRunTouchesOneStage ==
    [][SingleStage =>
          /\ call'.stage \in {"none", run.mode}
          /\ SameRecords(uploadedFiles, uploadedFiles') =>
                 \A i \in 1..Len(uploadedFiles) : \A s \in Stages \ {run.mode} :
                     Slot(uploadedFiles'[i], s) = Slot(uploadedFiles[i], s)
          /\ pc = "pass" =>
                 /\ StageOfRun = run.mode
                 /\ run'.queue = FilesFor(uploadedFiles, run.mode)
          /\ pc' = "idle" => run' = NoRun]_vars

\* an extract-only run has returned and left a record with its text, with
\* summary, structure and quality selectable and untouched
C27_Witness ==
    /\ pc = "idle"
    /\ runs = 1
    /\ dispatched # {}
    /\ \A d \in dispatched : d[2] = "extract"
    /\ \E f \in Live :
           /\ IsSucceeded(f, "extract")
           /\ SelectedStages(f) = {"summary", "structure", "quality"}
           /\ \A s \in Stages \ {"extract"} : NotStarted(f, s)

----------------------------------------------------------------------------
(* isProcessing during a comprehensive run *)

\* the run is waiting (for a reply or in a sleep): the only states of a
\* run in which a click can be handled
Suspended == pc \in {"fetch", "ratelimit", "backoff"}

\* C29: while a comprehensive run is under way, whenever a click could be
\* handled isProcessing is true and every button that starts a run is
\* disabled, so no second run begins before the run has returned.
C29_NoSecondRun ==
    (run.mode = "comprehensive" /\ Suspended) =>
        /\ isProcessing
        /\ \A mode \in Modes : ~ButtonEnabled(mode)

\* the run is in a later pass, after an earlier pass has ended with
\* setIsProcessing(false), and the extract button would otherwise be offered
C29_Witness ==
    /\ run.mode = "comprehensive"
    /\ pc = "fetch"
    /\ run.pass >= 3
    /\ run.passes >= 3
    /\ isProcessing
    /\ Len(uploadedFiles) > 0

----------------------------------------------------------------------------
(* Frame of applying an outcome *)

\* the records at position i differ at most in the slot of stage s
SameButSlot(f, g, s) ==
    /\ g.id = f.id /\ g.type = f.type /\ g.size = f.size
    /\ \A t \in Stages \ {s} : Slot(g, t) = Slot(f, t)

\* C30: applying the outcome of a client call for (file, stage) changes
\* only the slot of that stage in the one record of that file: every other
\* record stays as it is, and so does every other slot of that record.
C30_OutcomeChangesOneSlot ==
    [][pc = "settle" =>
          /\ SameRecords(uploadedFiles, uploadedFiles')
          /\ \A i \in 1..Len(uploadedFiles) :
                 SameButSlot(uploadedFiles[i], uploadedFiles'[i], call.stage)
          /\ \A i, j \in 1..Len(uploadedFiles) :
                 (/\ uploadedFiles'[i] # uploadedFiles[i]
                  /\ uploadedFiles'[j] # uploadedFiles[j]) => i = j
          /\ \A i \in 1..Len(uploadedFiles) :
                 uploadedFiles'[i] # uploadedFiles[i] =>
                     uploadedFiles[i].id = Val(call.item).id]_vars

\* the same for a collection in which no two records share an id
OutcomeChangesOneSlotOfUniqueIds ==
    [][(pc = "settle" /\ C11_UniqueIds) =>
          /\ SameRecords(uploadedFiles, uploadedFiles')
          /\ \A i \in 1..Len(uploadedFiles) :
                 SameButSlot(uploadedFiles[i], uploadedFiles'[i], call.stage)
          /\ \A i \in 1..Len(uploadedFiles) :
                 uploadedFiles'[i] # uploadedFiles[i] =>
                     uploadedFiles[i].id = Val(call.item).id]_vars

----------------------------------------------------------------------------
(* In-progress flags outside a run *)

NoRunActive == pc = "idle"

\* C31: whenever no run is under way, no record has an in-progress flag
\* set: whatever the client returned or threw, the pass has cleared the
\* flag of every record it marked before it ended; and a pass ends only by
\* reaching the end of its loop, with every selected file settled.
C31_NoFlagOutsideRun ==
    /\ NoRunActive => \A f \in Live : \A s \in Stages : ~InProgress(f, s)
    /\ (pc \in {"pass", "idle"} /\ run.mode # "none" /\ run.passes > 0) =>
           run.settled = run.selected

\* a run has returned after a call of it failed
C31_Witness ==
    /\ NoRunActive
    /\ runs >= 1
    /\ \E f \in Live : \E s \in Stages :
           IsFailed(f, s) /\ <<f.id, s, 1>> \in dispatched

----------------------------------------------------------------------------
(* Document types that reach the specialized analysis *)

\* performSpecializedAnalysis is being called for a document of type t
SpecializedDispatchedWith(t) ==
    /\ call.stage = "specialized"
    /\ pc = "fetch"
    /\ IsSucceeded(Val(call.item), "structure")
    /\ DocumentTypeOf(Val(call.item)) = t

\* the document types the structure analysis of a record can succeed
\* with: those of the route's schema, once the record has a text to send
PossibleStructureTypes(f) ==
    IF HasResult(f, "extract") THEN DocumentTypes ELSE {}

\* C32: every document type the specialized pass accepts (invoice,
\* contract, resume) is a type with which the structure analysis can
\* succeed, so that the specialized analysis of each of the three can be
\* reached through the pipeline.
C32_SpecializedTypesAreAnswered ==
    \A f \in Live :
        HasResult(f, "extract") =>
            \A t \in SpecializedTypes : t \in PossibleStructureTypes(f)

\* what the program does with the third type: no structure result and no
\* specialized call ever carries "resume"
ResumeIsNeverAnalyzed ==
    /\ \A f \in Live :
           HasResult(f, "structure") => DocumentTypeOf(f) \in DocumentTypes
    /\ ~SpecializedDispatchedWith("resume")

\* the invoice branch is reached
InvoiceIsAnalyzed == SpecializedDispatchedWith("invoice")

\* the contract branch is reached
ContractIsAnalyzed == SpecializedDispatchedWith("contract")

----------------------------------------------------------------------------
(* Failures that originate in the remote service *)

\* error bodies with which a route reports a failure of the service behind
\* it, not a fault of the request
ServiceFailureMsgs == {RouteSummaryTooShortMsg, RouteSummaryFailedMsg, OcrFailedMsg}

\* C33: a failure that originates in the remote service (the summarization
\* model returning an empty or too short summary) is classified Transient
\* and, while attempts remain, followed by the backoff sleep and another
\* attempt; it is not classified Validation and thrown at once.
C33_ServiceFailureIsTransient ==
    [][(AttemptFails /\ FailingWith.text \in ServiceFailureMsgs) =>
          /\ Classify(call.stage, FailingWith) = "Transient"
          /\ call.attempt < MAX_RETRIES => pc' = "backoff"]_vars

\* the other service failures of the model are retried
OtherServiceFailuresAreTransient ==
    [][(AttemptFails /\ FailingWith.text \in ServiceFailureMsgs \ {RouteSummaryTooShortMsg}) =>
          /\ Classify(call.stage, FailingWith) = "Transient"
          /\ call.attempt < MAX_RETRIES => pc' = "backoff"]_vars

----------------------------------------------------------------------------
(* The timeout of one attempt *)

\* C34: no attempt of extractTextFromFile or generateSummary stays pending
\* for ever: an attempt whose response (status, headers and body) has not
\* been received completely is aborted by the timer and ends as a Timeout.
C34_AttemptIsBounded == Requesting ~> ~Requesting

----------------------------------------------------------------------------
(* Removed files *)

\* the client call that is being settled was made for a record that has
\* been removed since
SettlingForRemoved == pc = "settle" /\ Val(call.item).id \in removed

\* C35: after removeFile(id) no record with that id is in the collection
\* again, and an outcome that arrives for a removed file changes nothing in
\* the collection.
C35_RemovedStaysRemoved ==
    [][/\ \A f \in Range(uploadedFiles') : f.id \notin removed'
       /\ SettlingForRemoved => uploadedFiles' = uploadedFiles]_vars

\* the part about late outcomes, for as long as the removed id is absent
LateOutcomeChangesNothing ==
    [][(SettlingForRemoved /\ Val(call.item).id \notin IdsOf(uploadedFiles)) =>
           uploadedFiles' = uploadedFiles]_vars

\* an outcome arrived for a file removed during its call
C35_LateOutcomeSeen ==
    /\ pc = "item"
    /\ run.settled >= 1
    /\ \E d \in dispatched : d[1] \in removed /\ d[1] \notin IdsOf(uploadedFiles)

\* the step of a pass that puts a request of a client in flight
DispatchesCall == pc = "item" /\ pc' = "fetch"

\* C36: a run dispatches no remote call for a file that removeFile has taken
\* out: each pass dispatches only for files that are in the collection at
\* the moment of dispatch.
C36_NoCallForRemoved ==
    [][DispatchesCall =>
           /\ Head(run.queue).id \notin removed
           /\ Head(run.queue).id \in IdsOf(uploadedFiles)]_vars

\* what the passes do keep to: a call is dispatched only for a file of the
\* collection the callback of the run was created with
CallsAreForTheSnapshot ==
    [][DispatchesCall => Head(run.queue).id \in IdsOf(run.files)]_vars

----------------------------------------------------------------------------
(* The notice of runComprehensiveAnalysis *)

\* a stage of a file of the run had no error when the run started and is
\* Failed now
FailedDuringRun ==
    \E i \in 1..Len(run.files) : \E s \in Stages :
        /\ ~HasError(run.files[i], s)
        /\ \E f \in Live : f.id = run.files[i].id /\ IsFailed(f, s)

\* C37: runComprehensiveAnalysis issues its success notice and switches to
\* the dashboard only when no stage ended Failed during the run; when some
\* stage of the run ended Failed it goes through its "Analysis failed"
\* branch, which leaves the tab alone.
C37_SuccessNoticeOnlyWithoutFailure ==
    [][(ComprehensiveReturns /\ FailedDuringRun) =>
           /\ toasts' = "Analysis failed"
           /\ activeTab' = activeTab]_vars

\* what the run does whatever its passes recorded: the passes catch their
\* own errors, so the try block always reaches its end
RunAlwaysReportsSuccess ==
    [][ComprehensiveReturns =>
           /\ toasts' = "Comprehensive analysis complete"
           /\ activeTab' = "dashboard"]_vars

\* a comprehensive run is about to return with a Failed stage of its own
C37_ReturnsAfterFailure ==
    /\ pc = "item"
    /\ run.mode = "comprehensive"
    /\ run.queue = <<>>
    /\ run.pass = Len(PassOrder)
    /\ FailedDuringRun

====
